---- MODULE Spec2Model ----
(***************************************************************************)
(* Model of the video-to-GIF converter: the App.vue presentation           *)
(* controller (script setup + the template's v-if / :disabled guards) and  *)
(* the useFFmpeg composable (engine lifecycle, validateFile, convertToGif, *)
(* cleanup).                                                               *)
(*                                                                         *)
(* Execution model: the browser event loop.  One action is one macrotask   *)
(* (a UI event, a timer, an engine/worker completion) together with the    *)
(* synchronous code it runs up to the next await.  The continuation of     *)
(* handleConvert after `await convertToGif(...)` is a microtask: it is a   *)
(* separate action, and no macrotask is enabled while it is pending.       *)
(*                                                                         *)
(* Abstractions: a File is a record of its declared type, its name (the    *)
(* sequence of its dot-separated segments) and its byte size; a Blob is    *)
(* identified by the file it was converted from; object URLs and engine    *)
(* instances are numbered in creation order.  handleDragOver and           *)
(* handleDragLeave only toggle a CSS flag and are left out.                *)
(***************************************************************************)
EXTENDS Integers, Sequences, FiniteSets, TLC

VARIABLES
    selectedFile,   \* App.vue:18   ref<File | null>
    result,         \* App.vue:20   ref<ConversionResult | null>
    toast,          \* App.vue:21   ref<{message, type} | null>
    timers,         \* number of pending setTimeout callbacks of showToast
    mounted,        \* the component is mounted (UI events can arrive)
    ffmpeg,         \* App.vue:473  shallowRef<FFmpeg | null>, 0 = null
    isLoaded,       \* App.vue:478
    isLoading,      \* App.vue:474
    isConverting,   \* App.vue:475
    progress,       \* App.vue:476
    error,          \* App.vue:477  ref<string | null>
    calls,          \* the async calls (handleConvert / convertToGif / loadFFmpeg)
    nCalls,         \* number of calls started so far
    nUrls,          \* number of URL.createObjectURL calls so far
    revoked,        \* per object URL: number of URL.revokeObjectURL calls
    nLoaded,        \* number of instance.load() calls that completed successfully
    engineFiles,    \* files for which an engine call (load/writeFile/exec/readFile) was made
    overlap,        \* some call was started while a loadFFmpeg was still pending
    fs,             \* names of the files in the engine's virtual filesystem (all instances)
    replaced,       \* selectFile has released a result it found displayed
    download,       \* the last download downloadGif synthesized
    dialogOpen,     \* the native file dialog of <input type="file"> is open
    vFile,          \* input of the stand-alone validateFile check
    vOut,           \* its outcome
    fOpts,          \* the ConversionOptions of the stand-alone parameter check
    fSettings,      \* the fps, width and colors convertToGif derived from them
    fExecs          \* the argument lists passed to instance.exec

vars == << selectedFile, result, toast, timers, mounted, ffmpeg, isLoaded,
           isLoading, isConverting, progress, error, calls, nCalls, nUrls,
           revoked, nLoaded, engineFiles, overlap, fs, replaced, download,
           dialogOpen, vFile, vOut, fOpts, fSettings, fExecs >>

ctlVars == << selectedFile, result, toast, timers, mounted, dialogOpen >>
engVars == << ffmpeg, isLoaded, isLoading, isConverting, progress, error >>
callVars == << calls, nCalls, overlap >>
resVars == << nUrls, revoked, nLoaded, engineFiles, fs >>
valVars == << vFile, vOut, fOpts, fSettings, fExecs >>
restVars == << valVars, replaced, download >>

-----------------------------------------------------------------------------
(* Bounds of the model *)

MaxCalls == 2      \* async calls started in one run
MaxTimers == 2     \* pending showToast timers

-----------------------------------------------------------------------------
(* Values *)


NoFile == [type |-> <<>>, name |-> <<>>, size |-> -1]           \* null File
NoResult == [url |-> 0, file |-> NoFile]                        \* null ConversionResult
NoToast == [message |-> "", type |-> "none"]                    \* null toast
Null == "<null>"                                                \* null error string
NoDownload == [name |-> <<>>, of |-> NoFile]                    \* nothing downloaded yet

MAX_FILE_SIZE == 100 * 1024 * 1024

\* an optional field of ConversionOptions that is left out
NoQuality == [given |-> FALSE, value |-> ""]
NoNumber == [given |-> FALSE, value |-> 0]
NoOptions == [quality |-> NoQuality, fps |-> NoNumber, loop |-> NoNumber]
NoSettings == [fps |-> -1, width |-> -1, colors |-> -1, loop |-> -1]

QualityPreset == {"low", "medium", "high", "original"}

QUALITY_SETTINGS ==
    [q \in QualityPreset |->
        CASE q = "low" -> [width |-> 320, colors |-> 64, fps |-> 10]
          [] q = "medium" -> [width |-> 480, colors |-> 128, fps |-> 12]
          [] q = "high" -> [width |-> 720, colors |-> 256, fps |-> 15]
          [] q = "original" -> [width |-> 1280, colors |-> 256, fps |-> 12]]

SUPPORTED_FORMATS ==
    { <<"video", "mp4">>, <<"video", "quicktime">>,
      <<"video", "x-msvideo">>, <<"video", "webm">> }

\* the alternatives of the regular expression /\.(mov|mp4|avi|webm)$/i
SupportedExt == {"mov", "mp4", "avi", "webm"}

UnsupportedMsg == "Nieobslugiwany format pliku. Uzyj MP4, MOV, AVI lub WebM."
TooLargeMsg == "Plik jest za duzy. Maksymalny rozmiar to 100MB."
LoadFailMsg == "Nie udalo sie zaladowac FFmpeg. Sprawdz polaczenie internetowe."
UnknownMsg == "Wystapil nieznany blad podczas konwersji."
DefaultFailMsg == "Wystapil blad podczas konwersji"
NotVideoMsg == "Wybierz plik wideo (MP4, MOV, AVI, WebM)"
SuccessMsg == "Konwersja zakonczona pomyslnie!"

\* The files the user can drop or pick.
SmallMp4 == [type |-> <<"video", "mp4">>, name |-> <<"clip", "mp4">>, size |-> 5 * 1024 * 1024]
ExtOnlyMov == [type |-> <<>>, name |-> <<"Movie", "MOV">>, size |-> MAX_FILE_SIZE]
BigMp4 == [type |-> <<"video", "mp4">>, name |-> <<"big", "mp4">>, size |-> MAX_FILE_SIZE + 1]
BigOgg == [type |-> <<"video", "ogg">>, name |-> <<"film", "ogv">>, size |-> 150 * 1024 * 1024]
Notes == [type |-> <<"text", "plain">>, name |-> <<"notes", "txt">>, size |-> 1024]

Files == {SmallMp4, ExtOnlyMov, BigMp4, BigOgg, Notes}

\* What the engine, the network or the dynamic imports can throw.
Thrown ==
    { [isError |-> TRUE, message |-> "ffmpeg: failed"],
      [isError |-> TRUE, message |-> ""],
      [isError |-> FALSE, message |-> ""] }

\* Progress values the engine reports, in thousandths (p = pm / 1000).
ProgressEvents == {0, 495, 1000}

Idle == [pc |-> "idle", kind |-> "none", file |-> NoFile, inst |-> 0, url |-> 0, at |-> ""]
Done == [Idle EXCEPT !.pc = "done"]

Slots == 1..MaxCalls

-----------------------------------------------------------------------------
(* Pure functions of the source *)

\* String.prototype.toLowerCase on the name segments the model uses
Lower(s) ==
    CASE s = "MOV" -> "mov"
      [] s = "MP4" -> "mp4"
      [] s = "AVI" -> "avi"
      [] s = "WEBM" -> "webm"
      [] OTHER -> s

\* /\.(mov|mp4|avi|webm)$/i : a dot, then one of the four extensions, then the end
MatchesExt(name) ==
    /\ Len(name) >= 2
    /\ Lower(name[Len(name)]) \in SupportedExt

\* file.type.startsWith("video/")
StartsWithVideo(type) == Len(type) >= 2 /\ type[1] = "video"

isVideoFile(file) == StartsWithVideo(file.type) \/ MatchesExt(file.name)

\* validateFile with the size ceiling tested before the format
validateFile_sizeFirst(file) ==
    IF file.size > MAX_FILE_SIZE
    THEN TooLargeMsg
    ELSE IF file.type \notin SUPPORTED_FORMATS /\ ~MatchesExt(file.name)
         THEN UnsupportedMsg
         ELSE Null

\* validateFile without the size ceiling
validateFile_noCeiling(file) ==
    IF file.type \notin SUPPORTED_FORMATS /\ ~MatchesExt(file.name)
    THEN UnsupportedMsg
    ELSE Null

\* validateFile: the message of the Error it throws, or Null when it returns
validateFile(file) ==
    IF file.type \notin SUPPORTED_FORMATS /\ ~MatchesExt(file.name)
    THEN UnsupportedMsg
    ELSE IF file.size > MAX_FILE_SIZE
         THEN TooLargeMsg
         ELSE Null

\* file.name.split(".").pop() || "mp4"
InputExt(name) ==
    IF Len(name) = 0 \/ name[Len(name)] = "" THEN "mp4" ELSE name[Len(name)]

\* inputName = `input.${inputExt}`, outputName = "output.gif"
InputName(file) == << "input", InputExt(file.name) >>
OutputName == << "output", "gif" >>

\* name.replace(/\.[^.]+$/, ".gif"): the last segment, when there is a dot
\* before it and it is not empty, becomes "gif"
GifName(name) ==
    IF Len(name) >= 2 /\ name[Len(name)] # ""
    THEN [name EXCEPT ![Len(name)] = "gif"]
    ELSE name

\* convertToGif's catch: e instanceof Error ? e.message : "...nieznany blad..."
CatchMessage(e) == IF e.isError THEN e.message ELSE UnknownMsg

\* Math.round(p * 100) for p = pm / 1000
RoundPercent(pm) == (pm + 5) \div 10

\* `x || y` on strings: null and "" are falsy
OrElse(x, y) == IF x = Null \/ x = "" THEN y ELSE x

isProcessing == isLoading \/ isConverting

\* canConvert looking at isLoading alone
canConvert_loadingOnly == selectedFile # NoFile /\ ~isLoading

canConvert == selectedFile # NoFile /\ ~isProcessing

-----------------------------------------------------------------------------
(* Bookkeeping *)

Outstanding(t) == calls[t].pc \notin {"idle", "done"}

\* a convertToGif call that has started and not settled
ConvertPending(t) ==
    /\ calls[t].kind \in {"uiConvert", "apiConvert"}
    /\ calls[t].pc \in {"loading", "write", "exec", "read", "del1", "del2"}

\* a handleConvert continuation waiting in the microtask queue
MicrotaskPending == \E t \in Slots : calls[t].pc \in {"resolved", "rejected"}

\* every showToast sets a timer: keep the number of pending timers bounded
TimerRoom ==
    timers + Cardinality({t \in Slots : calls[t].kind = "uiConvert" /\ Outstanding(t)})
        < MaxTimers

\* a UI event can be delivered
UiReady == mounted /\ ~MicrotaskPending

-----------------------------------------------------------------------------
(* Initial state: the component has just been set up *)

Init ==
    /\ selectedFile = NoFile
    /\ result = NoResult
    /\ toast = NoToast
    /\ timers = 0
    /\ mounted = TRUE
    /\ dialogOpen = FALSE
    /\ ffmpeg = 0
    /\ isLoaded = FALSE
    /\ isLoading = FALSE
    /\ isConverting = FALSE
    /\ progress = 0
    /\ error = Null
    /\ calls = [t \in Slots |-> Idle]
    /\ nCalls = 0
    /\ overlap = FALSE
    /\ nUrls = 0
    /\ revoked = [u \in Slots |-> 0]
    /\ nLoaded = 0
    /\ engineFiles = {}
    /\ fs = {}
    /\ replaced = FALSE
    /\ download = NoDownload
    /\ vFile = NoFile
    /\ vOut = "unused"
    /\ fOpts = NoOptions
    /\ fSettings = NoSettings
    /\ fExecs = << >>

-----------------------------------------------------------------------------
(* Presentation controller: App.vue <script setup> and the template guards *)

\* showToast(message, type)
showToast(message, type) ==
    /\ toast' = [message |-> message, type |-> type]
    /\ timers' = timers + 1

\* the setTimeout callback of showToast
ToastTimeout ==
    /\ ~MicrotaskPending
    /\ timers > 0
    /\ toast' = NoToast
    /\ timers' = timers - 1
    /\ UNCHANGED << selectedFile, result, mounted, dialogOpen >>
    /\ UNCHANGED << engVars, callVars, resVars, restVars >>

\* cleanup(url): URL.revokeObjectURL(url)
cleanup(url) == revoked' = [revoked EXCEPT ![url] = @ + 1]

\* selectFile dropping the previous result without releasing its URL
selectFile_noCleanup(file) ==
    /\ result' = NoResult
    /\ UNCHANGED revoked
    /\ replaced' = (replaced \/ result # NoResult)
    /\ selectedFile' = file

\* selectFile(file)
selectFile(file) ==
    /\ IF result # NoResult
       THEN cleanup(result.url) /\ result' = NoResult
       ELSE UNCHANGED << revoked, result >>
    /\ replaced' = (replaced \/ result # NoResult)
    /\ selectedFile' = file

\* the drop zone is rendered: v-if="!result"
DropZoneShown == result = NoResult

\* handleDrop(e), f the first dropped file (NoFile: the drop carries no file)
handleDrop(f) ==
    /\ UiReady
    /\ DropZoneShown
    /\ IF f # NoFile /\ isVideoFile(f)
       THEN /\ selectFile(f)
            /\ UNCHANGED << toast, timers >>
       ELSE /\ TimerRoom
            /\ showToast(NotVideoMsg, "error")
            /\ UNCHANGED << selectedFile, result, revoked, replaced >>
    /\ UNCHANGED << mounted, dialogOpen, engVars, callVars, nUrls, nLoaded, engineFiles, fs, valVars, download >>

\* @click on the drop zone: fileInput.click() opens the native file dialog
OpenPicker ==
    /\ UiReady
    /\ DropZoneShown
    /\ ~dialogOpen
    /\ dialogOpen' = TRUE
    /\ UNCHANGED << selectedFile, result, toast, timers, mounted >>
    /\ UNCHANGED << engVars, callVars, resVars, restVars >>

\* handleFileInput(e): the change event of the dialog, f the chosen file
handleFileInput(f) ==
    /\ UiReady
    /\ dialogOpen
    /\ dialogOpen' = FALSE
    /\ IF f # NoFile
       THEN selectFile(f)
       ELSE UNCHANGED << selectedFile, result, revoked, replaced >>
    /\ UNCHANGED << toast, timers, mounted, engVars, callVars, nUrls, nLoaded, engineFiles, fs, valVars, download >>

\* the file card's button without :disabled="isProcessing"
ClearEnabled_whileBusy ==
    \/ selectedFile # NoFile /\ result = NoResult
    \/ result # NoResult

\* the two buttons bound to clearFile: the one of the file card
\* (v-if="fileInfo && !result", :disabled="isProcessing") and "Nowy plik"
\* of the result view (v-if="result")
ClearEnabled ==
    \/ selectedFile # NoFile /\ result = NoResult /\ ~isProcessing
    \/ result # NoResult

\* clearFile() revoking the URL without dropping the result
clearFile_keepResult ==
    /\ UiReady
    /\ ClearEnabled
    /\ selectedFile' = NoFile
    /\ IF result # NoResult
       THEN cleanup(result.url)
       ELSE UNCHANGED revoked
    /\ UNCHANGED << result, toast, timers, mounted, dialogOpen, engVars, callVars, nUrls, nLoaded, engineFiles, fs, restVars >>

\* clearFile()
clearFile ==
    /\ UiReady
    /\ ClearEnabled
    /\ selectedFile' = NoFile
    /\ IF result # NoResult
       THEN cleanup(result.url) /\ result' = NoResult
       ELSE UNCHANGED << revoked, result >>
    /\ UNCHANGED << toast, timers, mounted, dialogOpen, engVars, callVars, nUrls, nLoaded, engineFiles, fs, restVars >>

\* the convert button: v-if="selectedFile && !result", :disabled="!canConvert"
ConvertEnabled == selectedFile # NoFile /\ result = NoResult /\ canConvert

\* onUnmounted
Unmount ==
    /\ UiReady
    /\ mounted' = FALSE
    /\ IF result # NoResult
       THEN cleanup(result.url)
       ELSE UNCHANGED revoked
    /\ UNCHANGED << selectedFile, result, toast, timers, dialogOpen >>
    /\ UNCHANGED << engVars, callVars, nUrls, nLoaded, engineFiles, fs, restVars >>

\* downloadGif(), bound to "Pobierz GIF" of the result view (v-if="result");
\* a.download and the result the link points to are recorded
downloadGif ==
    /\ UiReady
    /\ result # NoResult
    /\ IF selectedFile = NoFile
       THEN UNCHANGED download
       ELSE download' = [name |-> GifName(selectedFile.name), of |-> result.file]
    /\ UNCHANGED << ctlVars, engVars, callVars, resVars, valVars, replaced >>

-----------------------------------------------------------------------------
(* useFFmpeg: loadFFmpeg, convertToGif *)

\* how a settled convertToGif promise is delivered: to handleConvert's
\* continuation (a microtask), or to a caller outside the component;
\* `at` keeps the step the call was at when it settled
Settled(c, how, url) ==
    IF c.kind = "uiConvert"
    THEN [c EXCEPT !.pc = how, !.url = url, !.at = c.pc]
    ELSE Done

\* convertToGif, lines 553-555: the state set before the try block
ConvertEntry ==
    /\ progress' = 0
    /\ isConverting' = TRUE

\* a finally block that leaves progress as it is
ConvertFinally_keepProgress ==
    /\ isConverting' = FALSE
    /\ UNCHANGED progress

\* a finally block that leaves isConverting set
ConvertFinally_keepConverting ==
    /\ UNCHANGED isConverting
    /\ progress' = 0

\* convertToGif, finally block
ConvertFinally ==
    /\ isConverting' = FALSE
    /\ progress' = 0

\* the guard with the null test inverted
EngineReady_inverted == ffmpeg = 0 /\ isLoaded

\* the guard of loadFFmpeg, and of its call in convertToGif
EngineReady == ffmpeg # 0 /\ isLoaded

\* convertToGif(file, options) from its entry to its first await:
\* validateFile, then either the synchronous part of loadFFmpeg or
\* `instance = ffmpeg.value`
convertToGif(t, kind, file) ==
    LET v == validateFile(file)
        c == [pc |-> "validate", kind |-> kind, file |-> file, inst |-> 0, url |-> 0, at |-> ""]
    IN  /\ t = nCalls + 1
        /\ nCalls' = t
        /\ overlap' = (overlap \/ \E u \in Slots : calls[u].pc = "loading")
        /\ IF v # Null
           THEN /\ error' = v
                /\ ConvertFinally
                /\ calls' = [calls EXCEPT ![t] = Settled(c, "rejected", 0)]
                /\ UNCHANGED isLoading
           ELSE /\ error' = Null
                /\ ConvertEntry
                /\ IF ~EngineReady
                   THEN /\ isLoading' = TRUE
                        /\ calls' = [calls EXCEPT ![t] = [c EXCEPT !.pc = "loading"]]
                   ELSE /\ UNCHANGED isLoading
                        /\ calls' = [calls EXCEPT ![t] = [c EXCEPT !.pc = "write", !.inst = ffmpeg]]
        /\ UNCHANGED << ffmpeg, isLoaded >>

\* handleConvert() up to its await
handleConvert(t) ==
    /\ UiReady
    /\ ConvertEnabled
    /\ TimerRoom
    /\ t \in Slots
    /\ convertToGif(t, "uiConvert", selectedFile)
    /\ UNCHANGED << ctlVars, resVars, restVars >>

\* handleConvert after the await resolved
handleConvertThen(t) ==
    /\ calls[t].pc = "resolved"
    /\ result' = [url |-> calls[t].url, file |-> calls[t].file]
    /\ showToast(SuccessMsg, "success")
    /\ calls' = [calls EXCEPT ![t] = Done]
    /\ UNCHANGED << selectedFile, mounted, dialogOpen, nCalls, overlap >>
    /\ UNCHANGED << engVars, resVars, restVars >>

\* handleConvert's catch
handleConvertCatch(t) ==
    /\ calls[t].pc = "rejected"
    /\ showToast(OrElse(error, DefaultFailMsg), "error")
    /\ calls' = [calls EXCEPT ![t] = Done]
    /\ UNCHANGED << selectedFile, result, mounted, dialogOpen, nCalls, overlap >>
    /\ UNCHANGED << engVars, resVars, restVars >>

\* loadFFmpeg: the imports, new FFmpeg(), toBlobURL and instance.load all succeed
LoadOk(t) ==
    /\ ~MicrotaskPending
    /\ calls[t].pc = "loading"
    /\ ffmpeg' = nLoaded + 1
    /\ isLoaded' = TRUE
    /\ nLoaded' = nLoaded + 1
    /\ isLoading' = FALSE
    /\ IF calls[t].kind = "apiLoad"
       THEN /\ calls' = [calls EXCEPT ![t] = Done]
            /\ UNCHANGED engineFiles
       ELSE /\ calls' = [calls EXCEPT ![t].pc = "write", ![t].inst = ffmpeg']
            /\ engineFiles' = engineFiles \cup {calls[t].file}
    /\ UNCHANGED << isConverting, progress, error, nCalls, overlap, nUrls, revoked, fs >>
    /\ UNCHANGED << ctlVars, restVars >>

\* the message convertToGif's catch leaves in `error` when loadFFmpeg threw e
LoadFailError(e) == CatchMessage(e)

\* loadFFmpeg: one of its awaits throws e
LoadFail(t, e) ==
    /\ ~MicrotaskPending
    /\ calls[t].pc = "loading"
    /\ isLoading' = FALSE
    /\ IF calls[t].kind = "apiLoad"
       THEN /\ error' = LoadFailMsg
            /\ calls' = [calls EXCEPT ![t] = Done]
            /\ UNCHANGED << isConverting, progress, engineFiles >>
       ELSE /\ error' = LoadFailError(e)
            /\ ConvertFinally
            /\ calls' = [calls EXCEPT ![t] = Settled(calls[t], "rejected", 0)]
            /\ engineFiles' = engineFiles \cup {calls[t].file}
    /\ UNCHANGED << ffmpeg, isLoaded, nCalls, overlap, nUrls, revoked, nLoaded, fs >>
    /\ UNCHANGED << ctlVars, restVars >>

\* fetchFile and instance.writeFile(inputName, ...) succeed
WriteOk(t) ==
    /\ ~MicrotaskPending
    /\ calls[t].pc = "write"
    /\ calls' = [calls EXCEPT ![t].pc = "exec"]
    /\ engineFiles' = engineFiles \cup {calls[t].file}
    /\ fs' = fs \cup {InputName(calls[t].file)}
    /\ UNCHANGED << nCalls, overlap, nUrls, revoked, nLoaded >>
    /\ UNCHANGED << ctlVars, engVars, restVars >>

\* instance.on("progress", ...): the engine reports progress while exec runs
OnProgress(t, pm) ==
    /\ ~MicrotaskPending
    /\ calls[t].pc = "exec"
    /\ progress' = RoundPercent(pm)
    /\ UNCHANGED << ffmpeg, isLoaded, isLoading, isConverting, error >>
    /\ UNCHANGED << ctlVars, callVars, resVars, restVars >>

\* instance.exec([...]) resolves
ExecOk(t) ==
    /\ ~MicrotaskPending
    /\ calls[t].pc = "exec"
    /\ calls' = [calls EXCEPT ![t].pc = "read"]
    /\ fs' = fs \cup {OutputName}
    /\ UNCHANGED << nUrls, revoked, nLoaded, engineFiles >>
    /\ UNCHANGED << nCalls, overlap, ctlVars, engVars, restVars >>

\* instance.readFile(outputName) resolves; new Blob; URL.createObjectURL(blob)
ReadOk(t) ==
    /\ ~MicrotaskPending
    /\ calls[t].pc = "read"
    /\ nUrls' = nUrls + 1
    /\ calls' = [calls EXCEPT ![t].pc = "del1", ![t].url = nUrls']
    /\ UNCHANGED << nCalls, overlap, revoked, nLoaded, engineFiles, fs >>
    /\ UNCHANGED << ctlVars, engVars, restVars >>

\* the cleanup going on to the output file without deleting the input file
DeleteInputOk_skipped(t) ==
    /\ ~MicrotaskPending
    /\ calls[t].pc = "del1"
    /\ calls' = [calls EXCEPT ![t].pc = "del2"]
    /\ UNCHANGED << nCalls, overlap, ctlVars, engVars, resVars, restVars >>

\* instance.deleteFile(inputName) resolves
DeleteInputOk(t) ==
    /\ ~MicrotaskPending
    /\ calls[t].pc = "del1"
    /\ calls' = [calls EXCEPT ![t].pc = "del2"]
    /\ fs' = fs \ {InputName(calls[t].file)}
    /\ UNCHANGED << nUrls, revoked, nLoaded, engineFiles >>
    /\ UNCHANGED << nCalls, overlap, ctlVars, engVars, restVars >>

\* instance.deleteFile(outputName) resolves; return { blob, url, size }; finally
DeleteOutputOk(t) ==
    /\ ~MicrotaskPending
    /\ calls[t].pc = "del2"
    /\ ConvertFinally
    /\ calls' = [calls EXCEPT ![t] = Settled(calls[t], "resolved", calls[t].url)]
    /\ fs' = fs \ {OutputName}
    /\ UNCHANGED << nUrls, revoked, nLoaded, engineFiles >>
    /\ UNCHANGED << ffmpeg, isLoaded, isLoading, error, nCalls, overlap >>
    /\ UNCHANGED << ctlVars, restVars >>

\* one of the awaits after the load throws e: catch, finally, rethrow
StepFail(t, e) ==
    /\ ~MicrotaskPending
    /\ calls[t].pc \in {"write", "exec", "read", "del1", "del2"}
    /\ error' = CatchMessage(e)
    /\ ConvertFinally
    /\ calls' = [calls EXCEPT ![t] = Settled(calls[t], "rejected", calls[t].url)]
    /\ UNCHANGED << ffmpeg, isLoaded, isLoading, nCalls, overlap >>
    /\ UNCHANGED << ctlVars, resVars, restVars >>

-----------------------------------------------------------------------------
(* The application: UI events, timers, engine completions *)

Next ==
    \/ \E f \in Files \cup {NoFile} : handleDrop(f)
    \/ OpenPicker
    \/ \E f \in Files \cup {NoFile} : handleFileInput(f)
    \/ clearFile
    \/ Unmount
    \/ ToastTimeout
    \/ \E t \in Slots : handleConvert(t)
    \/ \E t \in Slots : handleConvertThen(t)
    \/ \E t \in Slots : handleConvertCatch(t)
    \/ \E t \in Slots : LoadOk(t)
    \/ \E t \in Slots, e \in Thrown : LoadFail(t, e)
    \/ \E t \in Slots : WriteOk(t)
    \/ \E t \in Slots, pm \in ProgressEvents : OnProgress(t, pm)
    \/ \E t \in Slots : ExecOk(t)
    \/ \E t \in Slots : ReadOk(t)
    \/ \E t \in Slots : DeleteInputOk(t)
    \/ \E t \in Slots : DeleteOutputOk(t)
    \/ \E t \in Slots, e \in Thrown : StepFail(t, e)

Spec == Init /\ [][Next]_vars

\* The application with the download button.  downloadGif changes nothing the
\* other handlers read, so it is kept out of Next and added here.
NextDownload ==
    \/ Next
    \/ downloadGif

SpecDownload == Init /\ [][NextDownload]_vars

-----------------------------------------------------------------------------
(* The composable on its own: callers outside App.vue use the functions     *)
(* useFFmpeg returns (loadFFmpeg, convertToGif) without the template's      *)
(* guards, so calls can overlap.                                            *)

\* loadFFmpeg() called directly, up to its first await
loadFFmpeg(t) ==
    /\ t = nCalls + 1
    /\ nCalls' = t
    /\ overlap' = (overlap \/ \E u \in Slots : calls[u].pc = "loading")
    /\ IF EngineReady
       THEN /\ calls' = [calls EXCEPT ![t] = Done]
            /\ UNCHANGED << isLoading, error >>
       ELSE /\ isLoading' = TRUE
            /\ error' = Null
            /\ calls' = [calls EXCEPT ![t] = [Idle EXCEPT !.pc = "loading", !.kind = "apiLoad"]]
    /\ UNCHANGED << ffmpeg, isLoaded, isConverting, progress >>

ApiLoad(t) ==
    /\ t \in Slots
    /\ loadFFmpeg(t)
    /\ UNCHANGED << ctlVars, resVars, restVars >>

ApiConvert(t, f) ==
    /\ t \in Slots
    /\ convertToGif(t, "apiConvert", f)
    /\ UNCHANGED << ctlVars, resVars, restVars >>

NextApi ==
    \/ \E t \in Slots : ApiLoad(t)
    \/ \E t \in Slots, f \in Files : ApiConvert(t, f)
    \/ \E t \in Slots : LoadOk(t)
    \/ \E t \in Slots, e \in Thrown : LoadFail(t, e)
    \/ \E t \in Slots : WriteOk(t)
    \/ \E t \in Slots, pm \in ProgressEvents : OnProgress(t, pm)
    \/ \E t \in Slots : ExecOk(t)
    \/ \E t \in Slots : ReadOk(t)
    \/ \E t \in Slots : DeleteInputOk(t)
    \/ \E t \in Slots : DeleteOutputOk(t)
    \/ \E t \in Slots, e \in Thrown : StepFail(t, e)

SpecApi == Init /\ [][NextApi]_vars

-----------------------------------------------------------------------------
(* validateFile on its own, over a grid of declared types, names and sizes *)

ValTypes ==
    SUPPORTED_FORMATS \cup { <<>>, <<"video", "ogg">>, <<"text", "plain">> }

ValNames ==
    { <<"clip", "mp4">>, <<"Movie", "MOV">>, <<"a", "b", "avi">>, <<"w", "webm">>,
      <<"notes", "txt">>, <<"mp4">>, <<"film", "ogv">> }

ValSizes ==
    { 0, MAX_FILE_SIZE - 1, MAX_FILE_SIZE, MAX_FILE_SIZE + 1, 150 * 1024 * 1024 }

InitValidate ==
    /\ selectedFile = NoFile
    /\ result = NoResult
    /\ toast = NoToast
    /\ timers = 0
    /\ mounted = TRUE
    /\ dialogOpen = FALSE
    /\ ffmpeg = 0
    /\ isLoaded = FALSE
    /\ isLoading = FALSE
    /\ isConverting = FALSE
    /\ progress = 0
    /\ error = Null
    /\ calls = [t \in Slots |-> Idle]
    /\ nCalls = 0
    /\ overlap = FALSE
    /\ nUrls = 0
    /\ revoked = [u \in Slots |-> 0]
    /\ nLoaded = 0
    /\ engineFiles = {}
    /\ fs = {}
    /\ replaced = FALSE
    /\ download = NoDownload
    /\ vFile \in [type : ValTypes, name : ValNames, size : ValSizes]
    /\ vOut = "pending"
    /\ fOpts = NoOptions
    /\ fSettings = NoSettings
    /\ fExecs = << >>

\* validateFile(vFile) is called
ApplyValidate ==
    /\ vOut = "pending"
    /\ vOut' = validateFile(vFile)
    /\ UNCHANGED << vFile, fOpts, fSettings, fExecs, replaced, download, ctlVars, engVars, callVars, resVars >>

SpecValidate == InitValidate /\ [][ApplyValidate]_vars

-----------------------------------------------------------------------------
(* convertToGif's encode parameters on their own, over a grid of options *)

\* `customFps || settings.fps`: a zero override falls back to the preset
DeriveFps_or(customFps, settings) ==
    IF customFps.given /\ customFps.value # 0 THEN customFps.value ELSE settings.fps

\* const fps = customFps ?? settings.fps
DeriveFps(customFps, settings) ==
    IF customFps.given THEN customFps.value ELSE settings.fps

\* const { quality = "high", fps: customFps, loop = 0 } = options; and the
\* three values derived from QUALITY_SETTINGS[quality]
DeriveSettings(options) ==
    LET quality == IF options.quality.given THEN options.quality.value ELSE "high"
        settings == QUALITY_SETTINGS[quality]
    IN  [ fps |-> DeriveFps(options.fps, settings),
          width |-> settings.width,
          colors |-> settings.colors,
          loop |-> IF options.loop.given THEN options.loop.value ELSE 0 ]

\* the template string vf, cut at its three substitutions
BuildVf(fps, width, colors) ==
    << "fps=", fps, ",scale=", width,
       ":-1:flags=lanczos,split[s0][s1];[s0]palettegen=max_colors=", colors,
       "[p];[s1][p]paletteuse=dither=floyd_steinberg" >>

\* the argument list of instance.exec; String(loop) is kept as the number
ExecArgs(inputName, st) ==
    << "-i", inputName, "-vf", BuildVf(st.fps, st.width, st.colors),
       "-loop", st.loop, OutputName >>

FilterFps == {0, 1, 5, 10, 12, 15, 24, 30, 60}
FilterLoops == {0, 3}

FilterOptions ==
    [ quality : {NoQuality} \cup [given : {TRUE}, value : QualityPreset],
      fps : {NoNumber} \cup [given : {TRUE}, value : FilterFps],
      loop : {NoNumber} \cup [given : {TRUE}, value : FilterLoops] ]

InitFilter ==
    /\ selectedFile = NoFile
    /\ result = NoResult
    /\ toast = NoToast
    /\ timers = 0
    /\ mounted = TRUE
    /\ dialogOpen = FALSE
    /\ ffmpeg = 0
    /\ isLoaded = FALSE
    /\ isLoading = FALSE
    /\ isConverting = FALSE
    /\ progress = 0
    /\ error = Null
    /\ calls = [t \in Slots |-> Idle]
    /\ nCalls = 0
    /\ overlap = FALSE
    /\ nUrls = 0
    /\ revoked = [u \in Slots |-> 0]
    /\ nLoaded = 0
    /\ engineFiles = {}
    /\ fs = {}
    /\ replaced = FALSE
    /\ download = NoDownload
    /\ vFile = NoFile
    /\ vOut = "unused"
    /\ fOpts \in FilterOptions
    /\ fSettings = NoSettings
    /\ fExecs = << >>

\* convertToGif(SmallMp4, fOpts), lines 548-551
FilterDerive ==
    /\ fSettings = NoSettings
    /\ fSettings' = DeriveSettings(fOpts)
    /\ UNCHANGED << fOpts, fExecs, vFile, vOut >>
    /\ UNCHANGED << ctlVars, engVars, callVars, resVars, replaced, download >>

\* ... lines 573-583: the filter string is built and exec is called
FilterExec ==
    /\ fSettings # NoSettings
    /\ fExecs = << >>
    /\ fExecs' = Append(fExecs, ExecArgs(InputName(SmallMp4), fSettings))
    /\ UNCHANGED << fOpts, fSettings, vFile, vOut >>
    /\ UNCHANGED << ctlVars, engVars, callVars, resVars, replaced, download >>

NextFilter ==
    \/ FilterDerive
    \/ FilterExec

SpecFilter == InitFilter /\ [][NextFilter]_vars

-----------------------------------------------------------------------------
(* Properties *)

Created == 1..nUrls

Pending == {t \in Slots : ConvertPending(t)}

\* C1 (as claimed): every object URL handed to the controller has been revoked
\* exactly once by the time the component is unmounted, also when the
\* conversion that created it completes after the unmount.
C1_RevokedByUnmount ==
    (~mounted /\ result # NoResult) => revoked[result.url] = 1

\* C2: at most one convertToGif call is outstanding at any time, and a call
\* that is outstanding has isConverting set (so the convert button, enabled
\* only for a selected file with isLoading and isConverting false, is off).
C2_OneConversion ==
    /\ Cardinality(Pending) <= 1
    /\ \A t \in Slots : ConvertPending(t) => isConverting /\ ~ConvertEnabled

\* a second conversion is running after the first one settled
C2_Witness ==
    /\ nCalls = 2
    /\ calls[1] = Done
    /\ calls[2].pc = "exec"
    /\ isConverting

\* what "initialized at most once and reused" says of a state
LoadedOnce ==
    /\ nLoaded <= 1
    /\ \A t \in Slots : calls[t].inst # 0 => calls[t].inst = ffmpeg

\* C3 (as claimed): over any calls of convertToGif and loadFFmpeg, overlapping
\* ones included, instance.load succeeds at most once and every conversion
\* uses that one instance.
C3_LoadedOnce == LoadedOnce

\* C3 (amended): when no call is started while a loadFFmpeg is still pending,
\* instance.load succeeds at most once (also after failed loads) and every
\* conversion after it uses that one instance.
C3_LoadedOnceSerial == ~overlap => LoadedOnce

\* a second call runs on the instance loaded before it started
C3_Witness ==
    /\ ~overlap
    /\ nCalls = 2
    /\ nLoaded = 1
    /\ calls[1] = Done
    /\ calls[2].pc = "write"
    /\ calls[2].inst = ffmpeg

\* the file's declared type or its extension is on the allow-list
FormatSupported(file) == file.type \in SUPPORTED_FORMATS \/ MatchesExt(file.name)

\* C4 (as claimed): every file larger than 100 MiB fails validateFile with the
\* file-too-large error, whatever its type and name.
C4_TooLargeAlways ==
    (vOut # "pending" /\ vFile.size > MAX_FILE_SIZE) => vOut = TooLargeMsg

\* C4 (amended): every file larger than 100 MiB fails validateFile: with the
\* file-too-large error when its type or its extension is supported, and with
\* the unsupported-format error when both are unsupported.
C4_TooLargeUnlessUnsupported ==
    (vOut # "pending" /\ vFile.size > MAX_FILE_SIZE) =>
        vOut = IF FormatSupported(vFile) THEN TooLargeMsg ELSE UnsupportedMsg

\* a large file of unsupported type and extension has been validated
C4_Witness ==
    /\ vOut = UnsupportedMsg
    /\ vFile.size > MAX_FILE_SIZE
    /\ ~FormatSupported(vFile)

\* the error a file larger than 100 MiB is rejected with
LargeFileMsg(file) == IF FormatSupported(file) THEN TooLargeMsg ELSE UnsupportedMsg

C6_NoPartialResult ==
    \A t \in Slots :
        calls[t].pc = "rejected" =>
            /\ result = NoResult
            /\ calls[t].url = 0 \/ revoked[calls[t].url] > 0

\* C7: progress is 0 whenever no convertToGif call is outstanding, and it is
\* 0 from the start of a conversion until its exec runs (where the progress
\* callback fires): a non-zero progress belongs to an outstanding call whose
\* exec has started.
C7_ProgressZero ==
    /\ Pending = {} => progress = 0
    /\ progress # 0 => \E t \in Slots : calls[t].pc \in {"exec", "read", "del1", "del2"}

\* a second conversion has just returned its result
C7_Witness ==
    /\ nCalls = 2
    /\ calls[1] = Done
    /\ calls[2].pc = "resolved"
    /\ progress = 0

\* C8 (as claimed): a file whose type is not one of the four supported types
\* and whose name lacks a supported extension is never the selected file.
C8_InvalidNeverSelected ==
    selectedFile # NoFile => FormatSupported(selectedFile)

\* C9 (as claimed): a conversion that failed in the engine load leaves
\* loadFFmpeg's failure message in the error ref.
C9_LoadFailureSurfaced ==
    \A t \in Slots :
        (calls[t].pc = "rejected" /\ calls[t].at = "loading") => error = LoadFailMsg

IdleEmpty == selectedFile = NoFile /\ result = NoResult /\ ~isProcessing
FileSelected == selectedFile # NoFile /\ result = NoResult /\ ~isProcessing
LoadingEngine == isLoading
Converting == isConverting /\ ~isLoading
ResultReady == result # NoResult

\* C10: the controller is in exactly one of idle-empty, file-selected,
\* loading-engine, converting, result-ready; a result is never present while
\* isLoading or isConverting, and neither flag is set with no file selected.
C10_OneState ==
    /\ Cardinality({ i \in 1..5 :
            << IdleEmpty, FileSelected, LoadingEngine, Converting, ResultReady >>[i] }) = 1
    /\ result # NoResult => ~isProcessing
    /\ isProcessing => selectedFile # NoFile

\* a result is shown after another file was chosen during its conversion
C10_Witness ==
    /\ ResultReady
    /\ selectedFile # NoFile
    /\ selectedFile # result.file


\* C11: once instance.load has succeeded, isLoading is never true again: no
\* later conversion passes through loading-engine.
C11_NoReload == nLoaded >= 1 => ~isLoading

\* a second conversion runs on the warm engine
C11_Witness ==
    /\ nLoaded = 1
    /\ calls[1] = Done
    /\ calls[2].pc = "write"
    /\ ~isLoading
    /\ isConverting

\* C13 (as claimed): a notification stays up until its own 4-second timer
\* fires; timers fire in the order they were set, so while a timer is pending
\* the notification shown last is still visible.
C13_VisibleUntilOwnTimer == timers > 0 => toast # NoToast

\* C16: while the component is mounted, the result it displays and offers
\* for download has a URL that was never passed to cleanup.
C16_ResultNotRevoked ==
    (mounted /\ result # NoResult) => revoked[result.url] = 0

\* a second result is displayed after the first one was released
C16_Witness ==
    /\ mounted
    /\ result # NoResult
    /\ result.url = 2
    /\ revoked[1] = 1

\* C19 (as claimed): a displayed result was converted from the file that is
\* currently selected.
C19_ResultOfSelectedFile ==
    (mounted /\ result # NoResult) => result.file = selectedFile

\* C20: isConverting is true exactly while a convertToGif call is
\* outstanding, isLoading exactly while a loadFFmpeg call is; with no call
\* outstanding both are false and canConvert holds for a selected file.
C20_FlagsTrackCalls ==
    /\ isConverting <=> Pending # {}
    /\ isLoading <=> \E t \in Slots : calls[t].pc = "loading"
    /\ (\A t \in Slots : ~ConvertPending(t)) =>
          /\ ~isLoading /\ ~isConverting
          /\ selectedFile # NoFile => canConvert

\* two conversions have failed and the file can be converted again
C20_Witness ==
    /\ calls[1] = Done
    /\ calls[2] = Done
    /\ nUrls = 0
    /\ error = "ffmpeg: failed"
    /\ selectedFile # NoFile
    /\ canConvert


\* a handler that calls selectFile(f)
SelectsFile(f) == (handleDrop(f) /\ isVideoFile(f)) \/ handleFileInput(f)

\* C12: selectFile with a result present revokes that result's URL exactly
\* once, sets result to null and stores the new file; with no result present
\* it revokes nothing.
C12_SelectReleasesOnce ==
    [][ \A f \in Files :
          SelectsFile(f) =>
              /\ selectedFile' = f
              /\ result' = NoResult
              /\ IF result # NoResult
                 THEN revoked' = [revoked EXCEPT ![result.url] = 1]
                 ELSE revoked' = revoked ]_vars

\* a file was chosen in the dialog while a result was displayed
C12_Witness ==
    /\ replaced
    /\ result = NoResult
    /\ selectedFile # NoFile
    /\ revoked[1] = 1

\* the table and the override rule as the claim states them
ClaimedFps(options) ==
    IF options.fps.given
    THEN options.fps.value
    ELSE CASE options.quality = NoQuality -> 15
           [] options.quality.value = "low" -> 10
           [] options.quality.value = "medium" -> 12
           [] options.quality.value = "high" -> 15
           [] options.quality.value = "original" -> 12

ClaimedWidth(options) ==
    CASE options.quality = NoQuality -> 720
      [] options.quality.value = "low" -> 320
      [] options.quality.value = "medium" -> 480
      [] options.quality.value = "high" -> 720
      [] options.quality.value = "original" -> 1280

ClaimedColors(options) ==
    CASE options.quality = NoQuality -> 256
      [] options.quality.value = "low" -> 64
      [] options.quality.value = "medium" -> 128
      [] options.quality.value = "high" -> 256
      [] options.quality.value = "original" -> 256

\* C14: for every preset (high when none is given) and every optional fps
\* override, exactly one exec is issued and its filter string carries the
\* preset's width and colour count and the override, or else the preset's fps.
C14_FilterFromPreset ==
    fExecs # << >> =>
        /\ Len(fExecs) = 1
        /\ fExecs[1][4][2] = ClaimedFps(fOpts)
        /\ fExecs[1][4][4] = ClaimedWidth(fOpts)
        /\ fExecs[1][4][6] = ClaimedColors(fOpts)

\* the exec of a conversion with the low preset and a frame-rate override of 0
C14_Witness ==
    /\ Len(fExecs) = 1
    /\ fOpts.quality = [given |-> TRUE, value |-> "low"]
    /\ fOpts.fps = [given |-> TRUE, value |-> 0]
    /\ fExecs[1][4][2] = 0

\* C15 (as claimed): the download is named after the file its result was
\* converted from, with the extension replaced by .gif.
C15_DownloadNamedAfterSource ==
    download # NoDownload => download.name = GifName(download.of.name)

\* C17 (as claimed): a failed attempt ends with an error notification with a
\* non-empty message, and the controller back in file-selected with the file
\* that was converted, result null, isLoading and isConverting false.
C17_FailedAttemptRestores ==
    [][ \A t \in Slots :
          handleConvertCatch(t) =>
              /\ toast'.type = "error"
              /\ toast'.message # ""
              /\ selectedFile' = calls[t].file
              /\ result' = NoResult
              /\ ~isLoading' /\ ~isConverting' ]_vars

\* C18 (as claimed): when a convertToGif call has succeeded, the virtual
\* filesystem holds no file written by convertToGif.
C18_FsEmptyAfterSuccess ==
    \A t \in Slots : calls[t].pc = "resolved" => fs = {}

\* C18 (amended): when a convertToGif call has succeeded, its own two virtual
\* files, the input file and output.gif, are gone from the filesystem.
C18_OwnFilesRemoved ==
    \A t \in Slots :
        calls[t].pc = "resolved" =>
            /\ InputName(calls[t].file) \notin fs
            /\ OutputName \notin fs

\* a conversion succeeded while the input of an earlier failed one is left
C18_Witness ==
    /\ calls[1] = Done
    /\ calls[2].pc = "resolved"
    /\ fs # {}

====
